---- MODULE Spec2Model ----
(***************************************************************************)
(* Model of the example code of the blog's articles:                       *)
(*  - disectChartData and getSlice ("indexing and slicing arrays"):        *)
(*    JavaScript arrays are objects on a heap; Array.prototype.slice       *)
(*    reads one and allocates a new one;                                   *)
(*  - merge_without_none ("merging dictionaries in Python");               *)
(*  - get_digits_arithmetic and get_digits_idiomatic ("using criterion");  *)
(*  - fibonacci ("Rust and Next.js with WebAssembly"), on u32.             *)
(* Each example has its own specification; the variables of the other      *)
(* examples stay at their idle values in it.                               *)
(***************************************************************************)
EXTENDS Integers, Sequences, FiniteSets, TLC

\* ---------------------------------------------------------------- bounds
MaxLen == 3
MaxWindow == 4
\* interleaved calls: array lengths 0..ConcLen, lengths -ConcWindow..ConcWindow
ConcLen == 2
ConcWindow == 2
\* dictionaries over the first MaxKeys key names
MaxKeys == 2
\* get_digits_*: n in 0..MaxN and in the MaxN + 1 largest u32 values
MaxN == 120
\* fibonacci: n in 0..MaxFibN
MaxFibN == 50
\* logger: at most MaxLogCalls calls of its methods in one run
MaxLogCalls == 3

\* ------------------------------------------------------- element values
JSNull == [type |-> "null"]
JSString(s) == [type |-> "string", str |-> s]
JSNumber(n) == [type |-> "number", num |-> n]

\* @param { Array<string | null> } labels
LabelValues == {JSNull, JSString("a"), JSString("b")}
\* @param { Array<string | number | null> } data
DataValues == {JSNull, JSString("x"), JSNumber(1)}

SeqsUpTo(S, n) == UNION {[1..k -> S] : k \in 0..n}
LabelArrays == SeqsUpTo(LabelValues, MaxLen)
DataArrays == SeqsUpTo(DataValues, MaxLen)
\* @param { number } length, an integer of either sign
Lengths == (-MaxWindow)..MaxWindow

\* ------------------------------------------------------- completions
\* The outcome of evaluating a call: a normal completion carrying a value,
\* or a throw completion carrying the error name; heap is the heap after it.
NormalCompletion(v, h) == [type |-> "normal", value |-> v, heap |-> h]
ThrowCompletion(e, h) == [type |-> "throw", value |-> e, heap |-> h]
NoResult == [type |-> "none"]

\* ------------------------------------------------------- builtins
MathMax(a, b) == IF a >= b THEN a ELSE b
MathMin(a, b) == IF a <= b THEN a ELSE b

\* Array.prototype.slice, steps 3-7: a relative index is counted from the
\* end when negative and is clamped into 0..len.
RelativeIndex(rel, len) ==
  IF rel < 0 THEN MathMax(len + rel, 0) ELSE MathMin(rel, len)

\* arr.splice(start, deleteCount) in place of arr.slice(start, end): the
\* elements are taken out of the receiver itself.
ArraySlice_Splice(h, this, start, end) ==
  LET O == h[this]
      len == Len(O)
      k == RelativeIndex(start, len)
      count == MathMin(MathMax(end, 0), len - k)
      A == [n \in 1..count |-> O[k + n]]
      rest == SubSeq(O, 1, k) \o SubSeq(O, k + count + 1, len)
  IN NormalCompletion(Len(h) + 1, Append([h EXCEPT ![this] = rest], A))

\* A slice that checks its start index against the array (a checked
\* sub-range, as in the Go and C++ versions of the example) and raises.
ArraySlice_Checked(h, this, start, end) ==
  LET O == h[this]
      len == Len(O)
      A == [n \in 1..(end - start) |-> O[start + n]]
  IN IF start < 0 \/ start > len \/ end > len \/ end < start
     THEN ThrowCompletion("RangeError", h)
     ELSE NormalCompletion(Len(h) + 1, Append(h, A))

\* arr.slice(start, end).reverse()
ArraySlice_Reverse(h, this, start, end) ==
  LET O == h[this]
      len == Len(O)
      k == RelativeIndex(start, len)
      final == RelativeIndex(end, len)
      count == MathMax(final - k, 0)
      A == [n \in 1..count |-> O[final + 1 - n]]
  IN NormalCompletion(Len(h) + 1, Append(h, A))

\* a slice that hands back the receiver itself when the whole array is asked for
ArraySlice_View(h, this, start, end) ==
  LET O == h[this]
      len == Len(O)
      k == RelativeIndex(start, len)
      final == RelativeIndex(end, len)
      count == MathMax(final - k, 0)
      A == [n \in 1..count |-> O[k + n]]
  IN IF k = 0 /\ final = len
     THEN NormalCompletion(this, h)
     ELSE NormalCompletion(Len(h) + 1, Append(h, A))

\* end taken as the index of the last element, not the one after it
ArraySlice_Inclusive(h, this, start, end) ==
  LET O == h[this]
      len == Len(O)
      k == RelativeIndex(start, len)
      final == MathMin(RelativeIndex(end, len) + 1, len)
      count == MathMax(final - k, 0)
      A == [n \in 1..count |-> O[k + n]]
  IN NormalCompletion(Len(h) + 1, Append(h, A))

\* arr.slice(start, end) on heap h, arr being the reference this: a new array
\* of the elements at (0-based) indexes k .. final-1 is allocated; the
\* receiver is left as it is.
ArraySlice(h, this, start, end) ==
  LET O == h[this]
      len == Len(O)
      k == RelativeIndex(start, len)
      final == RelativeIndex(end, len)
      count == MathMax(final - k, 0)
      A == [n \in 1..count |-> O[k + n]]
  IN NormalCompletion(Len(h) + 1, Append(h, A))

\* ------------------------------------------------------- the function
\* one element too many: endIdx - length - 1
StartIdx_OffByOne(endIdx, length) == MathMax(0, endIdx - length - 1)
\* the clamp at 0 left out
StartIdx_NoClamp(endIdx, length) == endIdx - length
\* the sign of length dropped
StartIdx_Abs(endIdx, length) ==
  MathMax(0, endIdx - (IF length < 0 THEN -length ELSE length))
\* arr.slice(-length): counts from the end, but -0 is the front
StartIdx_Negated(endIdx, length) == -length
\* the operands of the subtraction exchanged
StartIdx_Swapped(endIdx, length) == MathMax(0, length - endIdx)

\* Math.max(0, endSliceIdx - length): where the trailing window starts
StartIdx(endIdx, length) == MathMax(0, endIdx - length)

\* data sliced from the labels' start index
disectChartData_SharedStart(h, labels, data, length) ==
  LET endLabelSliceIdx == Len(h[labels])
      endDataSliceIdx == Len(h[data])
      startLabelIdx == StartIdx(endLabelSliceIdx, length)
      labelsSlice == ArraySlice(h, labels, startLabelIdx, endLabelSliceIdx)
      dataSlice == ArraySlice(labelsSlice.heap, data,
                              startLabelIdx, endDataSliceIdx)
  IN NormalCompletion([labels |-> labelsSlice.value,
                       data |-> dataSlice.value], dataSlice.heap)

\* data windowed from the front: data.slice(0, length)
disectChartData_DataFromFront(h, labels, data, length) ==
  LET endLabelSliceIdx == Len(h[labels])
      startLabelIdx == StartIdx(endLabelSliceIdx, length)
      labelsSlice == ArraySlice(h, labels, startLabelIdx, endLabelSliceIdx)
      dataSlice == ArraySlice(labelsSlice.heap, data, 0, MathMax(0, length))
  IN NormalCompletion([labels |-> labelsSlice.value,
                       data |-> dataSlice.value], dataSlice.heap)

\* the labels taken from the data array: labels: data.slice(...)
disectChartData_LabelsFromData(h, labels, data, length) ==
  LET endDataSliceIdx == Len(h[data])
      startDataIdx == StartIdx(endDataSliceIdx, length)
      labelsSlice == ArraySlice(h, data, startDataIdx, endDataSliceIdx)
      dataSlice == ArraySlice(labelsSlice.heap, data,
                              startDataIdx, endDataSliceIdx)
  IN NormalCompletion([labels |-> labelsSlice.value,
                       data |-> dataSlice.value], dataSlice.heap)

disectChartData(h, labels, data, length) ==
  IF labels \notin DOMAIN h \/ data \notin DOMAIN h
  THEN ThrowCompletion("TypeError", h)   \* .length of null or undefined
  ELSE
    LET endLabelSliceIdx == Len(h[labels])
        endDataSliceIdx == Len(h[data])
        startLabelIdx == StartIdx(endLabelSliceIdx, length)
        startDataIdx == StartIdx(endDataSliceIdx, length)
        labelsSlice == ArraySlice(h, labels, startLabelIdx, endLabelSliceIdx)
    IN IF labelsSlice.type = "throw" THEN labelsSlice
       ELSE LET dataSlice == ArraySlice(labelsSlice.heap, data,
                                        startDataIdx, endDataSliceIdx)
            IN IF dataSlice.type = "throw" THEN dataSlice
               ELSE NormalCompletion([labels |-> labelsSlice.value,
                                      data |-> dataSlice.value],
                                     dataSlice.heap)

\* ------------------------------------------------------- state
\* heap .. pc: the execution code around disectChartData.
\* calls: the activations of disectChartData that run interleaved.
\* slice, merge, digitsTest, fib: the calls of the articles' other functions.
\* logging: the process that calls the logger, with its console.
\* second: the time span of a second selection applied to a first result.
VARIABLES heap, labels, data, length, result, again, pc,
          calls, slice, merge, digitsTest, fib, logging, second
others == <<calls, slice, merge, digitsTest, fib, logging, second>>
vars == <<heap, labels, data, length, result, again, pc, others>>

\* A function of the articles that the program at hand does not call.
NotCalled == [pc |-> "idle"]

\* The caller has built its two arrays (or passes one array twice) and the
\* user has selected a time span.
Init ==
  /\ \E L \in LabelArrays :
       \/ \E D \in DataArrays : heap = <<L, D>> /\ labels = 1 /\ data = 2
       \/ heap = <<L>> /\ labels = 1 /\ data = 1
  /\ length \in Lengths
  /\ result = NoResult
  /\ again = NoResult
  /\ pc = "ready"
  /\ calls = << >>
  /\ slice = NotCalled /\ merge = NotCalled
  /\ digitsTest = NotCalled /\ fib = NotCalled
  /\ logging = NotCalled /\ second = 0

\* disectChartData(myArrayLabels, myArrayData, length)
Call ==
  /\ pc = "ready"
  /\ LET c == disectChartData(heap, labels, data, length)
     IN /\ result' = [type |-> c.type, value |-> c.value]
        /\ heap' = c.heap
  /\ pc' = "called"
  /\ UNCHANGED <<labels, data, length, again, others>>

\* disectChartData(r.labels, r.data, length) on the object r a first call
\* returned
Reapply ==
  /\ pc = "called"
  /\ result.type = "normal"
  /\ LET c == disectChartData(heap, result.value.labels, result.value.data,
                              length)
     IN /\ again' = [type |-> c.type, value |-> c.value]
        /\ heap' = c.heap
  /\ pc' = "reapplied"
  /\ UNCHANGED <<labels, data, length, result, others>>

Next == Call \/ Reapply

Spec == Init /\ [][Next]_vars

\* ------------------------------------------------------- interleaved calls
\* Two activations of disectChartData on the same two arrays, each advancing
\* one statement of the function body at a time.
Callers == {"first", "second"}

\* The shared arrays: n trailing-window candidates with neighbours that differ.
ConcLabels(n) ==
  [i \in 1..n |-> IF i % 3 = 1 THEN JSString("a")
                  ELSE IF i % 3 = 2 THEN JSString("b") ELSE JSNull]
ConcData(n) ==
  [i \in 1..n |-> IF i % 3 = 1 THEN JSNumber(1)
                  ELSE IF i % 3 = 2 THEN JSString("x") ELSE JSNull]

\* An activation at the top of the function body; its consts are not
\* initialised yet (0 stands for that).
Activation(len) ==
  [pc |-> "l19", length |-> len,
   endLabelSliceIdx |-> 0, endDataSliceIdx |-> 0,
   startLabelIdx |-> 0, startDataIdx |-> 0,
   labelsSlice |-> 0, dataSlice |-> 0, ret |-> NoResult]

ConcInit ==
  /\ \E n \in 0..ConcLen, m \in 0..ConcLen :
       heap = <<ConcLabels(n), ConcData(m)>>
  /\ labels = 1 /\ data = 2
  /\ calls \in [Callers -> {Activation(len) : len \in (-ConcWindow)..ConcWindow}]
  /\ length = 0 /\ result = NoResult /\ again = NoResult /\ pc = "idle"
  /\ slice = NotCalled /\ merge = NotCalled
  /\ digitsTest = NotCalled /\ fib = NotCalled
  /\ logging = NotCalled /\ second = 0

ConcFrame == UNCHANGED <<labels, data, length, result, again, pc,
                         slice, merge, digitsTest, fib, logging, second>>

\* const endLabelSliceIdx = labels.length
Line19(c) ==
  /\ calls[c].pc = "l19"
  /\ calls' = [calls EXCEPT ![c] =
       IF labels \notin DOMAIN heap
       THEN [@ EXCEPT !.pc = "done",
                      !.ret = [type |-> "throw", value |-> "TypeError"]]
       ELSE [@ EXCEPT !.pc = "l20", !.endLabelSliceIdx = Len(heap[labels])]]
  /\ UNCHANGED heap /\ ConcFrame

\* const endDataSliceIdx = data.length
Line20(c) ==
  /\ calls[c].pc = "l20"
  /\ calls' = [calls EXCEPT ![c] =
       IF data \notin DOMAIN heap
       THEN [@ EXCEPT !.pc = "done",
                      !.ret = [type |-> "throw", value |-> "TypeError"]]
       ELSE [@ EXCEPT !.pc = "l21", !.endDataSliceIdx = Len(heap[data])]]
  /\ UNCHANGED heap /\ ConcFrame

\* const startLabelIdx = Math.max(0, endLabelSliceIdx - length)
Line21(c) ==
  /\ calls[c].pc = "l21"
  /\ calls' = [calls EXCEPT ![c] =
       [@ EXCEPT !.pc = "l22",
                 !.startLabelIdx = StartIdx(calls[c].endLabelSliceIdx,
                                           calls[c].length)]]
  /\ UNCHANGED heap /\ ConcFrame

\* const startDataIdx = Math.max(0, endDataSliceIdx - length)
Line22(c) ==
  /\ calls[c].pc = "l22"
  /\ calls' = [calls EXCEPT ![c] =
       [@ EXCEPT !.pc = "l24",
                 !.startDataIdx = StartIdx(calls[c].endDataSliceIdx,
                                          calls[c].length)]]
  /\ UNCHANGED heap /\ ConcFrame

\* labels: labels.slice(startLabelIdx, endLabelSliceIdx)
Line24(c) ==
  /\ calls[c].pc = "l24"
  /\ LET s == ArraySlice(heap, labels, calls[c].startLabelIdx,
                         calls[c].endLabelSliceIdx)
     IN /\ heap' = s.heap
        /\ calls' = [calls EXCEPT ![c] =
             IF s.type = "throw"
             THEN [@ EXCEPT !.pc = "done",
                            !.ret = [type |-> s.type, value |-> s.value]]
             ELSE [@ EXCEPT !.pc = "l25", !.labelsSlice = s.value]]
  /\ ConcFrame

\* data: data.slice(startDataIdx, endDataSliceIdx), and the return
Line25(c) ==
  /\ calls[c].pc = "l25"
  /\ LET s == ArraySlice(heap, data, calls[c].startDataIdx,
                         calls[c].endDataSliceIdx)
     IN /\ heap' = s.heap
        /\ calls' = [calls EXCEPT ![c] =
             IF s.type = "throw"
             THEN [@ EXCEPT !.pc = "done",
                            !.ret = [type |-> s.type, value |-> s.value]]
             ELSE [@ EXCEPT !.pc = "done", !.dataSlice = s.value,
                            !.ret = [type |-> "normal",
                                     value |-> [labels |-> calls[c].labelsSlice,
                                                data |-> s.value]]]]
  /\ ConcFrame

ConcNext ==
  \E c \in Callers :
    \/ Line19(c) \/ Line20(c) \/ Line21(c)
    \/ Line22(c) \/ Line24(c) \/ Line25(c)

ConcSpec == ConcInit /\ [][ConcNext]_vars

\* ------------------------------------------------------- getSlice
\* function getSlice(start, end, arr) { return arr.slice(start, end) }
getSlice(h, start, end, arr) == ArraySlice(h, arr, start, end)

\* let myArray = [...], and the indexes the caller feeds to getSlice
SliceInit ==
  /\ \E A \in LabelArrays : heap = <<A>>
  /\ \E st \in Lengths, en \in Lengths :
       slice = [pc |-> "ready", start |-> st, end |-> en, arr |-> 1,
                ret |-> NoResult]
  /\ labels = 0 /\ data = 0 /\ length = 0
  /\ result = NoResult /\ again = NoResult /\ pc = "idle"
  /\ calls = << >> /\ merge = NotCalled
  /\ digitsTest = NotCalled /\ fib = NotCalled
  /\ logging = NotCalled /\ second = 0

\* getSlice(start, end, myArray)
SliceCall ==
  /\ slice.pc = "ready"
  /\ LET c == getSlice(heap, slice.start, slice.end, slice.arr)
     IN /\ heap' = c.heap
        /\ slice' = [slice EXCEPT !.pc = "called",
                                  !.ret = [type |-> c.type, value |-> c.value]]
  /\ UNCHANGED <<labels, data, length, result, again, pc,
                 calls, merge, digitsTest, fib, logging, second>>

SliceNext == SliceCall

SliceSpec == SliceInit /\ [][SliceNext]_vars

\* ------------------------------------------------------- merge_without_none
\* Python values of the article's dictionaries
PyNone == [type |-> "NoneType"]
PyStr(s) == [type |-> "str", str |-> s]
PyBool(b) == [type |-> "bool", bool |-> b]
PyInt(n) == [type |-> "int", int |-> n]
PyValues == {PyNone, PyStr(""), PyStr("test val"), PyBool(FALSE), PyInt(42)}

KeyNames == <<"testKey", "myParam", "myOtherParam", "awesomeKeyName">>
Keys == {KeyNames[i] : i \in 1..MaxKeys}
\* a dict is a function from the keys it holds to their values
Dicts == UNION {[K -> PyValues] : K \in SUBSET Keys}

\* Python truthiness: None, "", False and 0 are falsy
Truthy(v) ==
  /\ v # PyNone /\ v # PyStr("") /\ v # PyBool(FALSE) /\ v # PyInt(0)

\* {key: val for ... if val}: every falsy value dropped
FilterNone_Truthy(d) ==
  [key \in {k \in DOMAIN d : Truthy(d[k])} |-> d[key]]
\* {key: val for ...}: the condition left out
FilterNone_KeepAll(d) == d

\* {key: val for key, val in d.items() if val is not None}
FilterNone(d) ==
  [key \in {k \in DOMAIN d : d[k] # PyNone} |-> d[key]]

\* rhs | lhs: the operands of the union exchanged
DictUnion_LeftWins(a, b) ==
  [key \in DOMAIN a \cup DOMAIN b |->
     IF key \in DOMAIN a THEN a[key] ELSE b[key]]

\* a | b (PEP 584): the keys of both, the value of b where both hold the key
DictUnion(a, b) ==
  [key \in DOMAIN a \cup DOMAIN b |->
     IF key \in DOMAIN b THEN b[key] ELSE a[key]]

merge_without_none(lhs, rhs) == DictUnion(FilterNone(lhs), FilterNone(rhs))

MergeInit ==
  /\ \E l \in Dicts, r \in Dicts :
       merge = [pc |-> "ready", lhs |-> l, rhs |-> r, ret |-> << >>]
  /\ heap = << >> /\ labels = 0 /\ data = 0 /\ length = 0
  /\ result = NoResult /\ again = NoResult /\ pc = "idle"
  /\ calls = << >> /\ slice = NotCalled
  /\ digitsTest = NotCalled /\ fib = NotCalled
  /\ logging = NotCalled /\ second = 0

\* merge_without_none(lhs, rhs)
MergeCall ==
  /\ merge.pc = "ready"
  /\ merge' = [merge EXCEPT !.pc = "called",
                            !.ret = merge_without_none(merge.lhs, merge.rhs)]
  /\ UNCHANGED <<heap, labels, data, length, result, again, pc,
                 calls, slice, digitsTest, fib, logging, second>>

MergeNext == MergeCall

MergeSpec == MergeInit /\ [][MergeNext]_vars

\* ------------------------------------------------------- get_digits_*
\* A u32 is kept as two 16-bit limbs <<high, low>>, so that every value up
\* to 2^32 - 1 and the carry out of an addition are exact.
Limb == 2^16
U32(k) == <<k \div Limb, k % Limb>>
U32Zero == <<0, 0>>
U32Max == <<Limb - 1, Limb - 1>>
\* n / 10 and n % 10, by long division over the limbs
U32Div10(n) ==
  LET t == (n[1] % 10) * Limb + n[2]
  IN <<n[1] \div 10, t \div 10>>
U32Rem10(n) == ((n[1] % 10) * Limb + n[2]) % 10

\* 0 .. MaxN and the MaxN + 1 largest values of the type
DigitInputs ==
  {U32(k) : k \in 0..MaxN} \cup {<<Limb - 1, Limb - 1 - k>> : k \in 0..MaxN}

\* digits.reverse() left out
Reverse_Omitted(v) == v

\* digits.reverse(): the vector reversed in place
Reverse(v) == [i \in 1..Len(v) |-> v[Len(v) + 1 - i]]

\* while n > 0 { digits.push(n % 10); n /= 10; }
RECURSIVE ArithmeticLoop(_, _)
ArithmeticLoop(n, digits) ==
  IF n # U32Zero
  THEN ArithmeticLoop(U32Div10(n), Append(digits, U32Rem10(n)))
  ELSE digits

get_digits_arithmetic(n) == Reverse(ArithmeticLoop(n, << >>))

\* std::iter::from_fn(closure).collect(): the closure is called until it
\* returns None; each call returns n % 10 and divides the captured n by 10.
RECURSIVE FromFn(_)
FromFn(n) ==
  IF n # U32Zero THEN <<U32Rem10(n)>> \o FromFn(U32Div10(n))
  ELSE << >>

\* .rev() left out
RevCollect_Omitted(v) == v

\* .into_iter().rev().collect(): the items taken from the back
RECURSIVE RevCollect(_)
RevCollect(v) ==
  IF v = << >> THEN << >>
  ELSE <<v[Len(v)]>> \o RevCollect(SubSeq(v, 1, Len(v) - 1))

get_digits_idiomatic(n) == RevCollect(FromFn(n))

DigitsInit ==
  /\ \E n \in DigitInputs :
       digitsTest = [pc |-> "running", n |-> n,
                     arithmeticDone |-> FALSE, arithmetic |-> << >>,
                     idiomaticDone |-> FALSE, idiomatic |-> << >>]
  /\ heap = << >> /\ labels = 0 /\ data = 0 /\ length = 0
  /\ result = NoResult /\ again = NoResult /\ pc = "idle"
  /\ calls = << >> /\ slice = NotCalled
  /\ merge = NotCalled /\ fib = NotCalled
  /\ logging = NotCalled /\ second = 0

DigitsFrame == UNCHANGED <<heap, labels, data, length, result, again, pc,
                           calls, slice, merge, fib, logging, second>>

\* let result = get_digits_arithmetic(n)
ArithmeticCall ==
  /\ ~digitsTest.arithmeticDone
  /\ digitsTest' = [digitsTest EXCEPT
       !.arithmeticDone = TRUE,
       !.arithmetic = get_digits_arithmetic(digitsTest.n)]
  /\ DigitsFrame

\* let result = get_digits_idiomatic(n)
IdiomaticCall ==
  /\ ~digitsTest.idiomaticDone
  /\ digitsTest' = [digitsTest EXCEPT
       !.idiomaticDone = TRUE,
       !.idiomatic = get_digits_idiomatic(digitsTest.n)]
  /\ DigitsFrame

DigitsNext == ArithmeticCall \/ IdiomaticCall

DigitsSpec == DigitsInit /\ [][DigitsNext]_vars

\* ------------------------------------------------------- fibonacci
\* a + b on u32: the wrapped sum, and whether the exact sum is no u32
U32Add(a, b) ==
  LET lo == a[2] + b[2]
      hi == a[1] + b[1] + lo \div Limb
  IN [value |-> <<hi % Limb, lo % Limb>>, overflow |-> hi >= Limb]

\* The outcome of a call: a returned u32, or a panic that unwinds the callers.
Returns(v) == [type |-> "ok", value |-> v]
Panics == [type |-> "panic"]

\* fibonacci(n - 1) + fibonacci(n - 2): the left call first; an overflowing
\* sum panics where the build checks overflow (the dev and test profiles)
\* and wraps where it does not (the release profile wasm-pack builds).
FibAdd(checked, x, y) ==
  IF x.type = "panic" \/ y.type = "panic" THEN Panics
  ELSE LET sum == U32Add(x.value, y.value)
       IN IF sum.overflow /\ checked THEN Panics ELSE Returns(sum.value)

\* The outcomes of fibonacci(0) .. fibonacci(n), in this order.  A call's
\* outcome depends on its argument only, so the outcomes of the call tree
\* are tabulated instead of being recomputed in every branch.
RECURSIVE FibOutcomes(_, _)
FibOutcomes(checked, n) ==
  IF n = 0 THEN <<Returns(U32(0))>>
  ELSE IF n = 1 THEN <<Returns(U32(0)), Returns(U32(1))>>
  ELSE LET t == FibOutcomes(checked, n - 1)
       IN Append(t, FibAdd(checked, t[n], t[n - 1]))

\* match n { 0 => 0, 1 => 1, _ => fibonacci(n - 1) + fibonacci(n - 2) }
fibonacci(checked, n) == FibOutcomes(checked, n)[n + 1]

FibInit ==
  /\ \E n \in 0..MaxFibN, checked \in BOOLEAN :
       fib = [pc |-> "ready", n |-> n, overflowChecks |-> checked,
              ret |-> NoResult]
  /\ heap = << >> /\ labels = 0 /\ data = 0 /\ length = 0
  /\ result = NoResult /\ again = NoResult /\ pc = "idle"
  /\ calls = << >> /\ slice = NotCalled
  /\ merge = NotCalled /\ digitsTest = NotCalled
  /\ logging = NotCalled /\ second = 0

\* let result = fibonacci(n)
FibCall ==
  /\ fib.pc = "ready"
  /\ fib' = [fib EXCEPT !.pc = "called",
                        !.ret = fibonacci(fib.overflowChecks, fib.n)]
  /\ UNCHANGED <<heap, labels, data, length, result, again, pc,
                 calls, slice, merge, digitsTest, logging, second>>

FibNext == FibCall

FibSpec == FibInit /\ [][FibNext]_vars

\* ------------------------------------------------------- logger
\* A process with its environment and its console calls the four methods of
\* the logger any number of times.
JSUndefined == [type |-> "undefined"]

\* process.env.NODE_ENV: unset, or a string the deployment chose
NodeEnvs == {JSUndefined, JSString("production"), JSString("development"),
             JSString("test"), JSString("Production")}

\* the message argument
Messages == {"", "started"}

\* new Date().toISOString() at the instant now
ToISOString(now) == [iso |-> now]

\* `[LABEL] ${new Date().toISOString()}: ${message}`
Template(label, now, message) ==
  [label |-> label, timestamp |-> ToISOString(now), message |-> message]

\* console.debug / console.log / console.error / console.warn: one line on
\* the stream of that method
ConsoleWrite(console, method, text) ==
  Append(console, [method |-> method, text |-> text])

NotProduction_Inverted(env) == env = JSString("production")
\* process.env.NODE_ENV !== "production"
NotProduction(env) == env # JSString("production")

logMessage(env, console, now, message) ==
  IF NotProduction(env)
  THEN ConsoleWrite(console, "log", Template("[LOG]", now, message))
  ELSE console

errorMessage(env, console, now, message) ==
  IF NotProduction(env)
  THEN ConsoleWrite(console, "error", Template("[ERROR]", now, message))
  ELSE console

warnMessage(env, console, now, message) ==
  IF NotProduction(env)
  THEN ConsoleWrite(console, "warn", Template("[WARN]", now, message))
  ELSE console

debugMessage(env, console, now, message) ==
  IF NotProduction(env)
  THEN ConsoleWrite(console, "debug", Template("[DEBUG]", now, message))
  ELSE console

\* export const logger = { debug: debugMessage, log: logMessage,
\*                         error: errorMessage, warn: warnMessage }
logger(method, env, console, now, message) ==
  CASE method = "debug" -> debugMessage(env, console, now, message)
    [] method = "log" -> logMessage(env, console, now, message)
    [] method = "error" -> errorMessage(env, console, now, message)
    [] method = "warn" -> warnMessage(env, console, now, message)

\* The process has started: its environment is fixed, nothing was written to
\* the console and no method was called.
LoggerInit ==
  /\ \E env \in NodeEnvs :
       logging = [pc |-> "running", NODE_ENV |-> env, console |-> << >>,
                  called |-> << >>, now |-> 0]
  /\ heap = << >> /\ labels = 0 /\ data = 0 /\ length = 0
  /\ result = NoResult /\ again = NoResult /\ pc = "idle"
  /\ calls = << >> /\ slice = NotCalled /\ merge = NotCalled
  /\ digitsTest = NotCalled /\ fib = NotCalled /\ second = 0

\* logger[method](message); the clock has advanced by the next call
LoggerCall(method, message) ==
  /\ logging.pc = "running"
  /\ Len(logging.called) < MaxLogCalls
  /\ logging' = [logging EXCEPT
                   !.console = logger(method, logging.NODE_ENV,
                                      logging.console, logging.now, message),
                   !.called = Append(logging.called, method),
                   !.now = logging.now + 1]
  /\ UNCHANGED <<heap, labels, data, length, result, again, pc,
                 calls, slice, merge, digitsTest, fib, second>>

\* logger.debug(message)
DebugCall == \E message \in Messages : LoggerCall("debug", message)
\* logger.log(message)
LogCall == \E message \in Messages : LoggerCall("log", message)
\* logger.error(message)
ErrorCall == \E message \in Messages : LoggerCall("error", message)
\* logger.warn(message)
WarnCall == \E message \in Messages : LoggerCall("warn", message)

LoggerNext == DebugCall \/ LogCall \/ ErrorCall \/ WarnCall

LoggerSpec == LoggerInit /\ [][LoggerNext]_vars

\* ------------------------------------------------------- two selections
\* The caller windows its arrays with one time span and then windows the
\* returned object with a second time span.
ComposeInit ==
  /\ \E L \in LabelArrays, m \in 0..MaxLen :
       heap = <<L, ConcData(m)>> /\ labels = 1 /\ data = 2
  /\ length \in Lengths
  /\ second \in Lengths
  /\ result = NoResult
  /\ again = NoResult
  /\ pc = "ready"
  /\ calls = << >>
  /\ slice = NotCalled /\ merge = NotCalled
  /\ digitsTest = NotCalled /\ fib = NotCalled
  /\ logging = NotCalled

\* disectChartData(r.labels, r.data, second) on the object r the first call
\* returned
Rewindow ==
  /\ pc = "called"
  /\ result.type = "normal"
  /\ LET c == disectChartData(heap, result.value.labels, result.value.data,
                              second)
     IN /\ again' = [type |-> c.type, value |-> c.value]
        /\ heap' = c.heap
  /\ pc' = "rewindowed"
  /\ UNCHANGED <<labels, data, length, result, others>>

ComposeNext == Call \/ Rewindow

ComposeSpec == ComposeInit /\ [][ComposeNext]_vars

\* ------------------------------------------------------- properties
\* The arrays passed to the call, and the arrays of the object it returned.
InLabels == heap[labels]
InData == heap[data]
OutLabels == heap[result.value.labels]
OutData == heap[result.value.data]
Called == pc \in {"called", "reapplied"}
Returned == Called /\ result.type = "normal"

\* The last n elements of s, for 0 <= n <= Len(s).
LastN(s, n) == SubSeq(s, Len(s) - n + 1, Len(s))
\* t is a contiguous suffix of s.
IsSuffix(t, s) ==
  /\ Len(t) <= Len(s)
  /\ \A i \in 1..Len(t) : t[i] = s[Len(s) - Len(t) + i]
IsArray(a) == DOMAIN a = 1..Len(a)

\* C1: with 0 < length < len(s) the call returns, for that sequence, exactly
\* length elements, the last length elements of s in their order.
C1_TrailingWindow ==
  Called =>
    /\ (0 < length /\ length < Len(InLabels)) =>
         /\ result.type = "normal"
         /\ Len(OutLabels) = length
         /\ OutLabels = LastN(InLabels, length)
    /\ (0 < length /\ length < Len(InData)) =>
         /\ result.type = "normal"
         /\ Len(OutData) = length
         /\ OutData = LastN(InData, length)
C1_Witness ==
  /\ Returned
  /\ length = 2 /\ Len(InLabels) = 3 /\ Len(InData) = 3
  /\ InLabels[2] # InLabels[3] /\ InData[2] # InData[3]
  /\ OutLabels = <<InLabels[2], InLabels[3]>>
  /\ OutData = <<InData[2], InData[3]>>

\* C2: with length >= len(s) the call returns s unchanged for that sequence:
\* same elements, same order, same length.
C2_WholeSequence ==
  Called =>
    /\ length >= Len(InLabels) => result.type = "normal" /\ OutLabels = InLabels
    /\ length >= Len(InData) => result.type = "normal" /\ OutData = InData
C2_Witness ==
  /\ Returned
  /\ length > Len(InLabels) /\ Len(InLabels) >= 2 /\ OutLabels = InLabels
  /\ length = Len(InData) /\ Len(InData) >= 2 /\ OutData = InData

\* C3: with length < 0 the call returns an empty labels array and an empty
\* data array, whatever the inputs, and does not throw.
C3_NegativeLengthEmpty ==
  (Called /\ length < 0) =>
    /\ result.type = "normal"
    /\ OutLabels = <<>>
    /\ OutData = <<>>
C3_Witness ==
  /\ Returned /\ length < 0
  /\ Len(InLabels) > -length /\ Len(InData) >= 1
  /\ OutLabels = <<>> /\ OutData = <<>>

\* C4: with length = 0 the call returns an empty array for each series,
\* whatever the inputs.
C4_ZeroLengthEmpty ==
  (Called /\ length = 0) =>
    /\ result.type = "normal"
    /\ OutLabels = <<>>
    /\ OutData = <<>>
C4_Witness ==
  /\ Returned /\ length = 0
  /\ Len(InLabels) >= 2 /\ Len(InData) >= 1
  /\ OutLabels = <<>> /\ OutData = <<>>

\* C5: idempotence: the call applied with the same length to the arrays a
\* first call returned gives the same labels and data as the first call.
C5_Idempotent ==
  pc = "reapplied" =>
    /\ again.type = "normal"
    /\ heap[again.value.labels] = OutLabels
    /\ heap[again.value.data] = OutData
C5_Witness ==
  /\ pc = "reapplied" /\ again.type = "normal"
  /\ 0 < length /\ length < Len(InLabels) /\ length < Len(InData)
  /\ Len(heap[again.value.labels]) = length
  /\ Len(heap[again.value.data]) = length

\* C6: when labels and data have the same length, the two returned arrays
\* have the same length and stay aligned: output position i of both comes
\* from one and the same input position.
C6_Aligned ==
  (Called /\ Len(InLabels) = Len(InData)) =>
    /\ result.type = "normal"
    /\ Len(OutLabels) = Len(OutData)
    /\ \E k \in 0..Len(InLabels) :
         \A i \in 1..Len(OutLabels) :
           /\ k + i \in 1..Len(InLabels)
           /\ OutLabels[i] = InLabels[k + i]
           /\ OutData[i] = InData[k + i]
C6_Witness ==
  /\ Returned
  /\ InLabels = <<JSString("a"), JSString("b"), JSNull>>
  /\ InData = <<JSNumber(1), JSString("x"), JSNull>>
  /\ length = 2
  /\ OutLabels = <<JSString("b"), JSNull>>
  /\ OutData = <<JSString("x"), JSNull>>

\* C7: the two outputs are computed independently: the returned labels are
\* the same whatever data array is passed beside these labels, the returned
\* data are the same whatever labels array is passed beside this data, and
\* inputs of different lengths can give outputs of different lengths.
C7_Independent ==
  pc = "called" =>
    /\ result.type = "normal"
    /\ \A D \in DataArrays :
         LET c == disectChartData(<<InLabels, D>>, 1, 2, length)
         IN c.type = "normal" /\ c.heap[c.value.labels] = OutLabels
    /\ \A L \in LabelArrays :
         LET c == disectChartData(<<L, InData>>, 1, 2, length)
         IN c.type = "normal" /\ c.heap[c.value.data] = OutData
C7_Witness ==
  /\ Returned
  /\ Len(InLabels) = 3 /\ Len(InData) = 2 /\ length > 3
  /\ OutLabels = InLabels /\ OutData = InData
  /\ Len(OutLabels) # Len(OutData)

\* C8: a call leaves both of its input arrays as they were: same length,
\* same elements at the same positions.
C8_InputsUnchanged ==
  [][ /\ (pc = "ready" /\ pc' = "called") =>
           /\ heap'[labels] = heap[labels]
           /\ heap'[data] = heap[data]
      /\ (pc = "called" /\ pc' = "reapplied") =>
           /\ heap'[result.value.labels] = heap[result.value.labels]
           /\ heap'[result.value.data] = heap[result.value.data] ]_vars
C8_Witness ==
  /\ pc = "reapplied" /\ again.type = "normal"
  /\ 1 < length /\ length < Len(InLabels)
  /\ Len(InData) > 0
  /\ Len(heap) > 2

\* C9: the call is total: for any two arrays (empty ones and ones holding
\* null included) and any integer length it returns a pair of arrays and
\* never throws.
C9_Total ==
  /\ Called =>
       /\ result.type = "normal"
       /\ result.value.labels \in DOMAIN heap
       /\ result.value.data \in DOMAIN heap
       /\ IsArray(OutLabels) /\ IsArray(OutData)
  /\ pc = "reapplied" =>
       /\ again.type = "normal"
       /\ again.value.labels \in DOMAIN heap
       /\ again.value.data \in DOMAIN heap
       /\ IsArray(heap[again.value.labels]) /\ IsArray(heap[again.value.data])
C9_Witness ==
  /\ Returned
  /\ length < 0
  /\ InLabels = <<>>
  /\ \E i \in 1..Len(InData) : InData[i] = JSNull
  /\ IsArray(OutLabels) /\ IsArray(OutData)

\* C10: each returned array is a contiguous suffix of the matching input
\* array, its elements in their original order.
C10_Suffix ==
  Called =>
    /\ result.type = "normal"
    /\ IsSuffix(OutLabels, InLabels)
    /\ IsSuffix(OutData, InData)
C10_Witness ==
  /\ Returned
  /\ Len(InLabels) = 3 /\ Len(OutLabels) = 2
  /\ InLabels[1] # InLabels[2] /\ InLabels[2] # InLabels[3]
  /\ Len(InData) = 2 /\ Len(OutData) = 2 /\ InData[1] # InData[2]
  /\ IsSuffix(OutLabels, InLabels) /\ IsSuffix(OutData, InData)

\* C11: an empty input array gives an empty output array for that series,
\* whatever the length.
C11_EmptyInEmptyOut ==
  Called =>
    /\ InLabels = << >> => result.type = "normal" /\ OutLabels = << >>
    /\ InData = << >> => result.type = "normal" /\ OutData = << >>
C11_Witness ==
  /\ Returned
  /\ InLabels = << >> /\ InData = << >> /\ length = MaxWindow
  /\ labels # data
  /\ OutLabels = << >> /\ OutData = << >>

\* C12: calls that run interleaved on the same two arrays each return what
\* the call returns when it runs alone on them, and no step of any of them
\* changes the shared arrays.
C12_ConcurrentCallsAgree ==
  [][ /\ heap'[labels] = heap[labels]
      /\ heap'[data] = heap[data]
      /\ \A c \in Callers :
           calls'[c].pc = "done" =>
             LET alone == disectChartData(<<heap[labels], heap[data]>>, 1, 2,
                                          calls'[c].length)
             IN /\ calls'[c].ret.type = "normal"
                /\ alone.type = "normal"
                /\ heap'[calls'[c].ret.value.labels]
                     = alone.heap[alone.value.labels]
                /\ heap'[calls'[c].ret.value.data]
                     = alone.heap[alone.value.data] ]_vars
\* both calls have returned, the second one's slices were allocated between
\* the two slices of the first, and the windows differ
C12_Witness ==
  /\ \A c \in Callers : calls[c].pc = "done" /\ calls[c].ret.type = "normal"
  /\ calls["first"].labelsSlice < calls["second"].labelsSlice
  /\ calls["second"].dataSlice < calls["first"].dataSlice
  /\ calls["first"].length = 1 /\ calls["second"].length = 2
  /\ Len(heap[labels]) = 2 /\ Len(heap[data]) = 2
  /\ heap[calls["first"].ret.value.labels] = <<JSString("b")>>
  /\ heap[calls["second"].ret.value.data] = <<JSNumber(1), JSString("x")>>

C14_EndExclusive ==
  slice.pc = "called" =>
    LET arr == heap[slice.arr]
        out == heap[slice.ret.value]
    IN /\ slice.ret.type = "normal"
       /\ (0 <= slice.start /\ slice.start <= slice.end
             /\ slice.end <= Len(arr)) =>
            /\ Len(out) = slice.end - slice.start
            /\ \A i \in 1..Len(out) : out[i] = arr[slice.start + i]
       /\ (Len(arr) = 3 /\ slice.start = 0 /\ slice.end = 3) => out = arr
       /\ (Len(arr) = 3 /\ slice.start = 0 /\ slice.end = 2) =>
            out = <<arr[1], arr[2]>>
C14_Witness ==
  /\ slice.pc = "called" /\ slice.ret.type = "normal"
  /\ slice.start = 0 /\ slice.end = 2
  /\ heap[slice.arr] = <<JSString("a"), JSString("b"), JSNull>>
  /\ heap[slice.ret.value] = <<JSString("a"), JSString("b")>>

\* A key's value in a dict is None or the key is not in the dict.
NoneOrAbsent(d, k) == k \notin DOMAIN d \/ d[k] = PyNone
HasValue(d, k) == k \in DOMAIN d /\ d[k] # PyNone

\* C15: a None in rhs never overwrites a value of lhs: a key whose lhs value
\* is not None and whose rhs value is None or absent maps to the lhs value.
C15_NoneNeverOverwrites ==
  merge.pc = "called" =>
    \A k \in Keys :
      (HasValue(merge.lhs, k) /\ NoneOrAbsent(merge.rhs, k)) =>
        /\ k \in DOMAIN merge.ret
        /\ merge.ret[k] = merge.lhs[k]
C15_Witness ==
  /\ merge.pc = "called"
  /\ merge.lhs = [k \in {"testKey"} |-> PyStr("test val")]
  /\ merge.rhs = [k \in {"testKey"} |-> PyNone]
  /\ merge.ret = [k \in {"testKey"} |-> PyStr("test val")]

\* C16: a key that is None wherever it appears is absent from the result;
\* a key with a value other than None (an empty string or a boolean
\* included) is in the result with such a value of lhs or rhs; and the
\* result holds no None.
C16_NoNoneInResult ==
  merge.pc = "called" =>
    /\ \A k \in DOMAIN merge.ret : merge.ret[k] # PyNone
    /\ \A k \in Keys :
         /\ (NoneOrAbsent(merge.lhs, k) /\ NoneOrAbsent(merge.rhs, k)) =>
              k \notin DOMAIN merge.ret
         /\ (HasValue(merge.lhs, k) \/ HasValue(merge.rhs, k)) =>
              /\ k \in DOMAIN merge.ret
              /\ \/ HasValue(merge.lhs, k) /\ merge.ret[k] = merge.lhs[k]
                 \/ HasValue(merge.rhs, k) /\ merge.ret[k] = merge.rhs[k]
C16_Witness ==
  /\ merge.pc = "called"
  /\ merge.lhs = [k \in {"testKey", "myParam"} |->
                    IF k = "testKey" THEN PyNone ELSE PyStr("")]
  /\ merge.rhs = [k \in {"testKey", "myParam"} |-> PyNone]
  /\ merge.ret = [k \in {"myParam"} |-> PyStr("")]

\* C17: a key whose rhs value is not None maps to the rhs value, whatever
\* lhs holds for it.
C17_RhsOverwrites ==
  merge.pc = "called" =>
    \A k \in Keys :
      HasValue(merge.rhs, k) =>
        k \in DOMAIN merge.ret /\ merge.ret[k] = merge.rhs[k]
C17_Witness ==
  /\ merge.pc = "called"
  /\ HasValue(merge.lhs, "testKey") /\ HasValue(merge.rhs, "testKey")
  /\ merge.lhs["testKey"] # merge.rhs["testKey"]
  /\ merge.ret["testKey"] = merge.rhs["testKey"]

\* The number a most-significant-first vector of decimal digits denotes,
\* as limbs (the high limb exceeds Limb - 1 when the number is no u32).
RECURSIVE DecimalValue(_)
DecimalValue(ds) ==
  IF ds = << >> THEN U32Zero
  ELSE LET v == DecimalValue(SubSeq(ds, 1, Len(ds) - 1))
           t == 10 * v[2] + ds[Len(ds)]
       IN <<MathMin(10 * v[1] + t \div Limb, Limb), t % Limb>>

\* C18: for n > 0, get_digits_arithmetic(n) is the decimal digits of n, the
\* most significant first: digits 0..9, no leading zero, denoting n.
C18_ArithmeticDigits ==
  (digitsTest.pc # "idle" /\ digitsTest.arithmeticDone
     /\ digitsTest.n # U32Zero) =>
    /\ Len(digitsTest.arithmetic) >= 1
    /\ \A i \in 1..Len(digitsTest.arithmetic) :
         digitsTest.arithmetic[i] \in 0..9
    /\ digitsTest.arithmetic[1] # 0
    /\ DecimalValue(digitsTest.arithmetic) = digitsTest.n
    /\ digitsTest.n = U32(20) => digitsTest.arithmetic = <<2, 0>>
C18_Witness ==
  /\ digitsTest.pc # "idle" /\ digitsTest.arithmeticDone
  /\ digitsTest.n = U32(20) /\ digitsTest.arithmetic = <<2, 0>>

\* C19: get_digits_idiomatic(n) returns the same vector as
\* get_digits_arithmetic(n), for every u32 n.
C19_IdiomaticSameAsArithmetic ==
  (digitsTest.pc # "idle" /\ digitsTest.arithmeticDone
     /\ digitsTest.idiomaticDone) =>
    digitsTest.idiomatic = digitsTest.arithmetic
C19_Witness ==
  /\ digitsTest.pc # "idle"
  /\ digitsTest.arithmeticDone /\ digitsTest.idiomaticDone
  /\ digitsTest.n = U32Max
  /\ digitsTest.idiomatic = <<4, 2, 9, 4, 9, 6, 7, 2, 9, 5>>
  /\ digitsTest.arithmetic = digitsTest.idiomatic

\* C20: fibonacci(0) = 0, fibonacci(1) = 1, fibonacci(n) is the sum of
\* fibonacci(n - 1) and fibonacci(n - 2) for every n >= 2, and every call
\* returns.
C20_FibonacciRecurrence ==
  fib.pc = "called" =>
    /\ fib.ret.type = "ok"
    /\ fib.n = 0 => fib.ret.value = U32(0)
    /\ fib.n = 1 => fib.ret.value = U32(1)
    /\ fib.n >= 2 =>
         LET x == fibonacci(fib.overflowChecks, fib.n - 1)
             y == fibonacci(fib.overflowChecks, fib.n - 2)
         IN /\ x.type = "ok" /\ y.type = "ok"
            /\ ~U32Add(x.value, y.value).overflow
            /\ fib.ret.value = U32Add(x.value, y.value).value

\* C21: a call of logger.debug, logger.log, logger.error or logger.warn writes
\* nothing to the console when NODE_ENV is "production"; with any other
\* NODE_ENV (unset included) every call writes exactly one line, on the
\* console method of the called level. So after any number of calls the
\* console is empty in production, and otherwise it holds one line per call,
\* in call order, each on its call's method.
C21_LogsUnlessProduction ==
  logging.pc = "running" =>
    IF logging.NODE_ENV = JSString("production")
    THEN logging.console = << >>
    ELSE /\ Len(logging.console) = Len(logging.called)
         /\ \A i \in 1..Len(logging.called) :
              logging.console[i].method = logging.called[i]

\* Outside production an error and then a debug call were made, and the
\* console holds their two lines.
C21_Witness ==
  /\ logging.pc = "running"
  /\ logging.NODE_ENV = JSUndefined
  /\ logging.called = <<"error", "debug">>
  /\ Len(logging.console) = 2
  /\ logging.console[1].method = "error"
  /\ logging.console[1].text.label = "[ERROR]"
  /\ logging.console[2].method = "debug"

\* C22: for time spans a >= 0 and b >= 0, windowing the arrays with a and
\* then windowing the returned arrays with b gives the same sequences as
\* windowing the original arrays once with min(a, b); and the window of the
\* smaller span is a suffix of the window of each of the two spans.
C22_WindowsCompose ==
  (pc = "rewindowed" /\ length >= 0 /\ second >= 0) =>
    LET s == <<InLabels, InData>>
        once == disectChartData(s, 1, 2, MathMin(length, second))
        other == disectChartData(s, 1, 2, second)
    IN /\ again.type = "normal"
       /\ once.type = "normal"
       /\ heap[again.value.labels] = once.heap[once.value.labels]
       /\ heap[again.value.data] = once.heap[once.value.data]
       /\ IsSuffix(once.heap[once.value.labels], OutLabels)
       /\ IsSuffix(once.heap[once.value.data], OutData)
       /\ IsSuffix(once.heap[once.value.labels],
                   other.heap[other.value.labels])
       /\ IsSuffix(once.heap[once.value.data], other.heap[other.value.data])

\* Three labels windowed with 2 and then with 1: the first window drops one
\* label, the second leaves the last label only.
C22_Witness ==
  /\ pc = "rewindowed"
  /\ length = 2 /\ second = 1
  /\ Len(InLabels) = 3 /\ Len(InData) = 3
  /\ InLabels[2] # InLabels[3]
  /\ OutLabels = <<InLabels[2], InLabels[3]>>
  /\ again.type = "normal"
  /\ heap[again.value.labels] = <<InLabels[3]>>
  /\ heap[again.value.data] = <<InData[3]>>

====
